---------------------------- MODULE Spec2Model ----------------------------
(***************************************************************************)
(* Model of the prediction service of src/api/app.py: the startup hook     *)
(* that loads the classifier artifact, and the root, health and predict    *)
(* handlers that read the two module globals it sets.                      *)
(*                                                                         *)
(* A behaviour fixes one artifact on disk and one client payload, runs     *)
(* startup_event once, and then serves root, health and predict requests   *)
(* in any order and any number of times.                                   *)
(***************************************************************************)
EXTENDS Integers, Sequences, FiniteSets, TLC

\* Largest number of instances in one request.
MaxBatch == 2

\* HTTP status codes raised or returned by the handlers.
ServiceUnavailable == 503
InvalidRequest == 400
PredictionFailed == 500
Success == 200

-----------------------------------------------------------------------------
(* Data: column names, cells, instances, requests, artifacts.              *)

\* Column names a client may send and an estimator may have been fitted on.
Keys == {"a", "b"}

\* Python's order on these strings, as used by sorted().
Ord == ("a" :> 1) @@ ("b" :> 2)

\* A cell of the data frame: <<v>> holds the number v, <<>> is NaN.
NaN == <<>>

\* A value on which the construction of the data frame raises.
Junk == 0

Range(s) == {s[i] : i \in 1..Len(s)}

Injective(s) == \A i, j \in 1..Len(s) : s[i] = s[j] => i = j

\* The key orders of a dict: every sequence of distinct keys.
KeyOrders ==
  {ks \in UNION {[1..n -> Keys] : n \in 0..Cardinality(Keys)} : Injective(ks)}

\* The numbers the client attaches to the keys.
Valuations == { ("a" :> 1) @@ ("b" :> 2), ("a" :> 2) @@ ("b" :> 1) }

\* An instance is a dict: its <<key, value>> items in insertion order.
Unparsable == << <<"a", Junk>> >>

ProperInstances ==
  {[i \in 1..Len(ks) |-> <<ks[i], v[ks[i]]>>] : ks \in KeyOrders, v \in Valuations}

Instances == ProperInstances \cup {Unparsable}

\* PredictRequest.instances: a list of dicts, possibly empty.
Requests == UNION {[1..n -> Instances] : n \in 0..MaxBatch}

InstanceKeys(inst) == {inst[i][1] : i \in 1..Len(inst)}

\* dict lookup, for a key the instance has.
InstanceGet(inst, k) == inst[CHOOSE i \in 1..Len(inst) : inst[i][1] = k][2]

\* What may lie at MODEL_PATH. meta tells whether the estimator carries
\* feature_names_in_: "names" (it does), "none" (fitted without names),
\* "unlistable" (the attribute is there but list() of it raises).
File(kind, meta, names, nfeat, nanOK) ==
  [kind |-> kind, meta |-> meta, names |-> names, nfeat |-> nfeat, nanOK |-> nanOK]

Absent == File("absent", "none", <<>>, 0, FALSE)

Corrupt == File("corrupt", "none", <<>>, 0, FALSE)

\* The value of the global before, and after a failed, load.
None == File("None", "none", <<>>, 0, FALSE)

\* The feature lists an estimator may have been fitted with.
Schemas == {ks \in KeyOrders : Len(ks) > 0}

\* Estimators fitted on named columns, estimators fitted on 1 or 2 unnamed
\* columns, and one whose feature_names_in_ cannot be listed.
Estimators ==
  {File("estimator", "names", ks, Len(ks), n) : ks \in Schemas, n \in BOOLEAN}
  \cup {File("estimator", "none", <<>>, k, n) : k \in 1..Cardinality(Keys), n \in BOOLEAN}
  \cup {File("estimator", "unlistable", <<>>, Cardinality(Keys), FALSE)}

Artifacts == {Absent, Corrupt} \cup Estimators

-----------------------------------------------------------------------------
(* The libraries the handlers call: joblib, pandas, the estimator.         *)

\* joblib.load(MODEL_PATH): raises on a file it cannot deserialize.
JoblibLoad(file) == [raises |-> file.kind = "corrupt", value |-> file]

\* list(getattr(model, "feature_names_in_", [])).
FeatureNamesIn(m) ==
  [raises |-> m.meta = "unlistable",
   value  |-> IF m.meta = "names" THEN m.names ELSE <<>>]

KeySeq(inst) == [i \in 1..Len(inst) |-> inst[i][1]]

\* The columns seen so far, then the new keys of ks in their own order.
RECURSIVE Merge(_, _)
Merge(cols, ks) ==
  IF Len(ks) = 0 THEN cols
  ELSE Merge(IF Head(ks) \in Range(cols) THEN cols ELSE Append(cols, Head(ks)),
             Tail(ks))

RECURSIVE ColumnsFrom(_, _)
ColumnsFrom(cols, insts) ==
  IF Len(insts) = 0 THEN cols
  ELSE ColumnsFrom(Merge(cols, KeySeq(Head(insts))), Tail(insts))

\* pd.DataFrame(list of dicts): one row per dict, one column per key that
\* occurs in any dict, in order of first occurrence; a dict without the key
\* gets NaN in that column.
DataFrame(insts) ==
  LET cols == ColumnsFrom(<<>>, insts) IN
  [raises  |-> \E i \in 1..Len(insts) : \E j \in 1..Len(insts[i]) :
                 insts[i][j][2] = Junk,
   columns |-> cols,
   rows    |-> [i \in 1..Len(insts) |->
                 [j \in 1..Len(cols) |->
                    IF cols[j] \in InstanceKeys(insts[i])
                    THEN <<InstanceGet(insts[i], cols[j])>>
                    ELSE NaN]]]

\* Variant of SelectColumns that leaves the frame as the client sent it.
SelectColumns_AsSent(X, cols) == X

\* X[REQUIRED_COLUMNS]: the listed columns, in the listed order.
SelectColumns(X, cols) ==
  LET At(c) == CHOOSE j \in 1..Len(X.columns) : X.columns[j] = c IN
  [columns |-> cols,
   rows    |-> [i \in 1..Len(X.rows) |->
                 [j \in 1..Len(cols) |-> X.rows[i][At(cols[j])]]]]

CellNum(c) == IF c = NaN THEN 0 ELSE c[1]

\* The estimator's decision for one row, in half units (so that the cast to
\* int has something to cut off). It depends on the position of each number.
RECURSIVE Weighted(_, _)
Weighted(row, i) ==
  IF i > Len(row) THEN 0
  ELSE (IF i % 2 = 1 THEN i ELSE 0 - i) * CellNum(row[i]) + Weighted(row, i + 1)

RawPrediction(row) == Weighted(row, 1)

\* model.predict(X): one raw prediction per row; raises when the number of
\* columns is not the one the estimator was fitted on, or on NaN unless the
\* estimator accepts it.
ModelPredict(m, X) ==
  [raises |-> \/ Len(X.columns) # m.nfeat
              \/ /\ ~m.nanOK
                 /\ \E i \in 1..Len(X.rows) : \E j \in 1..Len(X.rows[i]) :
                      X.rows[i][j] = NaN,
   preds  |-> [i \in 1..Len(X.rows) |-> RawPrediction(X.rows[i])]]

\* Variant of IntCast that rounds down.
IntCast_Floor(h) == h \div 2

\* int(p) of a number given in half units: rounds toward zero.
IntCast(h) == IF h >= 0 THEN h \div 2 ELSE 0 - ((0 - h) \div 2)

\* sorted(S) for a set of column names.
RECURSIVE Sorted(_)
Sorted(S) ==
  IF S = {} THEN <<>>
  ELSE LET lo == CHOOSE k \in S : \A o \in S : Ord[k] <= Ord[o] IN
       <<lo>> \o Sorted(S \ {lo})

-----------------------------------------------------------------------------
(* The handlers of src/api/app.py as functions of the globals they read.   *)

NoFrame == [columns |-> <<>>, rows |-> <<>>]

Response(status, detail, missing, predictions, count) ==
  [status |-> status, detail |-> detail, missing |-> missing,
   predictions |-> predictions, count |-> count]

\* No predict request has been answered yet.
NoResponse == Response(0, "", <<>>, <<>>, 0)

\* raise HTTPException(status_code, detail); missing is the list inside the
\* "Missing required columns" detail, empty in the other details.
HTTPException(status, detail, missing) == Response(status, detail, missing, <<>>, 0)

\* PredictResponse(predictions=[int(p) for p in preds], count=len(preds)).
PredictResponse(preds) ==
  Response(Success, "", <<>>, [i \in 1..Len(preds) |-> IntCast(preds[i])], Len(preds))

\* What one predict call did: its response, how often it called
\* model.predict, and the frame it passed in the last such call.
Outcome(resp, calls, X) == [resp |-> resp, calls |-> calls, X |-> X]

\* Variant of Infer that calls the estimator a second time when it raised.
Infer_Retry(m, X) ==
  LET out == ModelPredict(m, X) IN
  IF out.raises
  THEN Outcome(HTTPException(PredictionFailed, "Prediction failed", <<>>), 2, X)
  ELSE Outcome(PredictResponse(out.preds), 1, X)

\* Lines 119-124: the call of the estimator and the response built from it.
Infer(m, X) ==
  LET out == ModelPredict(m, X) IN
  IF out.raises
  THEN Outcome(HTTPException(PredictionFailed, "Prediction failed", <<>>), 1, X)
  ELSE Outcome(PredictResponse(out.preds), 1, X)

\* set(REQUIRED_COLUMNS) - set(X.columns).
MissingColumns(cols, X) == Range(cols) \ Range(X.columns)

\* Variant of Enforce that runs the estimator before it looks at the columns.
Enforce_AfterPredict(m, cols, X) ==
  IF Len(cols) # 0 /\ MissingColumns(cols, X) # {}
  THEN Outcome(HTTPException(InvalidRequest, "Missing required columns",
                             Sorted(MissingColumns(cols, X))), 1, X)
  ELSE Infer(m, IF Len(cols) # 0 THEN SelectColumns(X, cols) ELSE X)

\* Lines 109-117: the required columns are enforced only when the list is
\* not empty; then the frame is cut down to them.
Enforce(m, cols, X) ==
  IF Len(cols) # 0
  THEN IF MissingColumns(cols, X) # {}
       THEN Outcome(HTTPException(InvalidRequest, "Missing required columns",
                                  Sorted(MissingColumns(cols, X))), 0, NoFrame)
       ELSE Infer(m, SelectColumns(X, cols))
  ELSE Infer(m, X)

\* Lines 104-107: the data frame is built, a failure becomes a 400.
Tabulate(m, cols, insts) ==
  LET X == DataFrame(insts) IN
  IF X.raises
  THEN Outcome(HTTPException(InvalidRequest, "Invalid input format", <<>>), 0, NoFrame)
  ELSE Enforce(m, cols, [columns |-> X.columns, rows |-> X.rows])

\* Variant of Validate without the check for an empty list.
Validate_NoEmptyCheck(m, cols, insts) == Tabulate(m, cols, insts)

\* Lines 101-102.
Validate(m, cols, insts) ==
  IF Len(insts) = 0
  THEN Outcome(HTTPException(InvalidRequest, "No instances provided", <<>>), 0, NoFrame)
  ELSE Tabulate(m, cols, insts)

\* Variant of predict without the readiness check.
predict_Ungated(m, cols, insts) == Validate(m, cols, insts)

\* predict(request), lines 96-124, reading the globals m and cols.
predict(m, cols, insts) ==
  IF m = None
  THEN Outcome(HTTPException(ServiceUnavailable, "Model not loaded", <<>>), 0, NoFrame)
  ELSE Validate(m, cols, insts)

\* Variant of health that reports healthy whenever it answers.
health_AlwaysHealthy(m) == [status |-> "healthy", model_loaded |-> TRUE]

\* health(), lines 83-93.
health(m) ==
  IF m = None
  THEN [status |-> "not_ready", model_loaded |-> FALSE]
  ELSE [status |-> "healthy", model_loaded |-> TRUE]

\* root(), lines 72-80.
root(m, cols) == [model_loaded |-> m # None, required_columns |-> cols]

\* Variant of startup_event whose except branch forgets to reset the global.
startup_event_KeepsModel(file, cols) ==
  IF file.kind = "absent" THEN [model |-> None, cols |-> cols, raised |-> FALSE]
  ELSE LET loaded == JoblibLoad(file) IN
       IF loaded.raises THEN [model |-> None, cols |-> cols, raised |-> FALSE]
       ELSE [model |-> loaded.value,
             cols  |-> IF FeatureNamesIn(loaded.value).raises THEN cols
                       ELSE FeatureNamesIn(loaded.value).value,
             raised |-> FALSE]

\* startup_event(), lines 45-66: the new values of the two globals, and
\* whether an exception leaves the hook. cols is REQUIRED_COLUMNS before.
startup_event(file, cols) ==
  IF file.kind = "absent" THEN [model |-> None, cols |-> cols, raised |-> FALSE]
  ELSE LET loaded == JoblibLoad(file) IN
       IF loaded.raises THEN [model |-> None, cols |-> cols, raised |-> FALSE]
       ELSE LET names == FeatureNamesIn(loaded.value) IN
            IF names.raises THEN [model |-> None, cols |-> cols, raised |-> FALSE]
            ELSE [model |-> loaded.value, cols |-> names.value, raised |-> FALSE]

-----------------------------------------------------------------------------
(* The service as a state machine.                                         *)

VARIABLES
  pc,                \* "uninit" before the startup hook, then "serving";
                     \* "crashed" if the hook let an exception out
  artifact,          \* what lies at MODEL_PATH
  request,           \* the instances of the client's payload
  model,             \* the global model
  REQUIRED_COLUMNS,  \* the global REQUIRED_COLUMNS
  response,          \* the answer to the latest predict request
  modelCalls,        \* calls of model.predict made by the latest predict
  frame,             \* the frame passed to model.predict by the latest predict
  healthReply,       \* the answer to the latest health request
  rootReply          \* the answer to the latest root request

vars == <<pc, artifact, request, model, REQUIRED_COLUMNS, response, modelCalls,
          frame, healthReply, rootReply>>

NoHealth == [status |-> "", model_loaded |-> FALSE]

NoRoot == [model_loaded |-> FALSE, required_columns |-> <<>>]

\* Module load, lines 26-27: model = None, REQUIRED_COLUMNS = [].
Init ==
  /\ pc = "uninit"
  /\ artifact \in Artifacts
  /\ request \in Requests
  /\ model = None
  /\ REQUIRED_COLUMNS = <<>>
  /\ response = NoResponse
  /\ modelCalls = 0
  /\ frame = NoFrame
  /\ healthReply = NoHealth
  /\ rootReply = NoRoot

\* The startup hook runs once, before any request is served.
Startup ==
  /\ pc = "uninit"
  /\ LET s == startup_event(artifact, REQUIRED_COLUMNS) IN
       /\ model' = s.model
       /\ REQUIRED_COLUMNS' = s.cols
       /\ pc' = IF s.raised THEN "crashed" ELSE "serving"
  /\ UNCHANGED <<artifact, request, response, modelCalls, frame, healthReply, rootReply>>

\* Variant of Predict that drops the model when a request fails.
Predict_DropsModel ==
  /\ pc = "serving"
  /\ LET o == predict(model, REQUIRED_COLUMNS, request) IN
       /\ response' = o.resp
       /\ modelCalls' = o.calls
       /\ frame' = o.X
       /\ model' = IF o.resp.status = Success THEN model ELSE None
  /\ UNCHANGED <<pc, artifact, request, REQUIRED_COLUMNS, healthReply, rootReply>>

\* POST /predict.
Predict ==
  /\ pc = "serving"
  /\ LET o == predict(model, REQUIRED_COLUMNS, request) IN
       /\ response' = o.resp
       /\ modelCalls' = o.calls
       /\ frame' = o.X
  /\ UNCHANGED <<pc, artifact, request, model, REQUIRED_COLUMNS, healthReply, rootReply>>

\* GET /health.
Health ==
  /\ pc = "serving"
  /\ healthReply' = health(model)
  /\ UNCHANGED <<pc, artifact, request, model, REQUIRED_COLUMNS, response,
                 modelCalls, frame, rootReply>>

\* GET /.
Root ==
  /\ pc = "serving"
  /\ rootReply' = root(model, REQUIRED_COLUMNS)
  /\ UNCHANGED <<pc, artifact, request, model, REQUIRED_COLUMNS, response,
                 modelCalls, frame, healthReply>>

Next == Startup \/ Predict \/ Health \/ Root

Spec == Init /\ [][Next]_vars

-----------------------------------------------------------------------------
(* Vocabulary of the properties.                                           *)

Ready == model # None

NotLoaded == model = None

\* A predict request has been answered.
Answered == pc = "serving" /\ response # NoResponse

\* The payload can be laid out as a table at all.
Tabular(insts) ==
  \A i \in 1..Len(insts) : \A j \in 1..Len(insts[i]) : insts[i][j][2] # Junk

\* The instance carries every column of the schema.
ValidInstance(inst, cols) == Range(cols) \subseteq InstanceKeys(inst)

\* The keys that every instance of the batch carries.
KeysInEvery(insts) == {k \in Keys : \A i \in 1..Len(insts) : k \in InstanceKeys(insts[i])}

\* The keys that some instance of the batch carries.
KeysInAny(insts) == {k \in Keys : \E i \in 1..Len(insts) : k \in InstanceKeys(insts[i])}

\* The cell of instance inst under column c.
CellOf(inst, c) == IF c \in InstanceKeys(inst) THEN <<InstanceGet(inst, c)>> ELSE NaN

\* p is the raw prediction r (in half units) rounded toward zero.
IsTruncationOf(p, r) ==
  IF r >= 0 THEN 2 * p <= r /\ r < 2 * p + 2
  ELSE 2 * p >= r /\ r > 2 * p - 2

-----------------------------------------------------------------------------
(* C1: while the model is not loaded, every predict request, whatever its  *)
(* payload, is answered 503 and the model is not invoked.                   *)
C1_ReadinessGate ==
  (Answered /\ NotLoaded) =>
    /\ response.status = ServiceUnavailable
    /\ response.predictions = <<>>
    /\ modelCalls = 0
    /\ frame = NoFrame

\* A well-formed batch of two complete instances was refused with 503.
C1_Witness ==
  /\ Answered /\ NotLoaded
  /\ artifact.kind = "corrupt"
  /\ Len(request) = 2
  /\ \A i \in 1..Len(request) : InstanceKeys(request[i]) = {"a", "b"}
  /\ response.status = ServiceUnavailable

(* C2: when the service is Ready, a batch in which some instance lacks a   *)
(* column of the Feature Schema is answered 400, the detail lists exactly  *)
(* the missing columns (schema minus the keys present in every instance),  *)
(* sorted, and the model is not called.                                    *)
C2_MissingColumnDetection ==
  (/\ Answered /\ Ready
   /\ Tabular(request)
   /\ \E i \in 1..Len(request) : ~ValidInstance(request[i], REQUIRED_COLUMNS)) =>
    /\ response.status = InvalidRequest
    /\ response.detail = "Missing required columns"
    /\ response.missing = Sorted(Range(REQUIRED_COLUMNS) \ KeysInEvery(request))
    /\ modelCalls = 0

(* C3 as stated: an empty instances list is answered 400 'No instances     *)
(* provided' and never reaches the model, in every readiness state.         *)
C3_EmptyBatchInEveryState ==
  (Answered /\ Len(request) = 0) =>
    /\ response.status = InvalidRequest
    /\ response.detail = "No instances provided"
    /\ modelCalls = 0

(* C3 amended: an empty instances list never reaches the model; it is      *)
(* answered 400 'No instances provided' when the service is Ready and 503  *)
(* when it is NotLoaded.                                                    *)
C3_EmptyBatch ==
  (Answered /\ Len(request) = 0) =>
    /\ modelCalls = 0
    /\ frame = NoFrame
    /\ response.predictions = <<>>
    /\ Ready => /\ response.status = InvalidRequest
                /\ response.detail = "No instances provided"
    /\ NotLoaded => response.status = ServiceUnavailable

\* A Ready service with a schema refused an empty batch.
C3_Witness ==
  /\ Answered /\ Ready
  /\ Len(REQUIRED_COLUMNS) = 2
  /\ Len(request) = 0
  /\ response.status = InvalidRequest

(* C4: an accepted batch gets one prediction per instance, in the order of *)
(* the instances, each the model's output for that instance cast to int,   *)
(* and count is the number of instances.                                    *)
C4_ResultShape ==
  (Answered /\ response.status = Success) =>
    /\ Len(response.predictions) = Len(request)
    /\ response.count = Len(request)
    /\ Len(frame.rows) = Len(request)
    /\ \A i \in 1..Len(request) :
         /\ \A j \in 1..Len(frame.columns) :
              frame.rows[i][j] = CellOf(request[i], frame.columns[j])
         /\ IsTruncationOf(response.predictions[i], RawPrediction(frame.rows[i]))

\* Two instances with different predictions, the first of them negative and
\* cut off by the cast.
C4_Witness ==
  /\ Answered /\ response.status = Success
  /\ Len(request) = 2
  /\ response.predictions[1] # response.predictions[2]
  /\ RawPrediction(frame.rows[1]) < 0
  /\ RawPrediction(frame.rows[1]) % 2 = 1

\* v is inst with its keys in another order, or with keys added that are not
\* in the schema, or both; the values of the keys of inst are kept.
VariantOf(v, inst, cols) ==
  /\ InstanceKeys(inst) \subseteq InstanceKeys(v)
  /\ (InstanceKeys(v) \ InstanceKeys(inst)) \cap Range(cols) = {}
  /\ \A k \in InstanceKeys(inst) : InstanceGet(v, k) = InstanceGet(inst, k)

\* The frame handed to the model holds the schema's columns, in the schema's
\* order, and nothing else.
FrameIsSchemaProjection ==
  /\ frame.columns = REQUIRED_COLUMNS
  /\ Len(frame.rows) = Len(request)
  /\ \A i \in 1..Len(request) : \A j \in 1..Len(REQUIRED_COLUMNS) :
       frame.rows[i][j] = CellOf(request[i], REQUIRED_COLUMNS[j])

\* Replacing any one instance of the batch by a variant of it gives the
\* same response.
SameResponseForVariants ==
  \A i \in 1..Len(request) : \A v \in ProperInstances :
    VariantOf(v, request[i], REQUIRED_COLUMNS) =>
      predict(model, REQUIRED_COLUMNS, [request EXCEPT ![i] = v]).resp = response

\* A batch of valid instances was answered by a Ready service.
ValidBatchAnswered ==
  /\ Answered /\ Ready
  /\ Len(request) > 0
  /\ Tabular(request)
  /\ \A i \in 1..Len(request) : ValidInstance(request[i], REQUIRED_COLUMNS)

C7_WriteOnce ==
  [][pc = "serving" =>
       /\ pc' = "serving"
       /\ model' = model
       /\ REQUIRED_COLUMNS' = REQUIRED_COLUMNS]_vars

\* A Ready service has answered a failing predict, a health and a root
\* request and still holds the model and schema of its artifact.
C7_Witness ==
  /\ Answered /\ Ready
  /\ response.status = PredictionFailed
  /\ healthReply # NoHealth
  /\ rootReply # NoRoot
  /\ model = artifact
  /\ REQUIRED_COLUMNS = artifact.names
  /\ Len(REQUIRED_COLUMNS) = 2

\* The check that fails first, in the order readiness, empty batch,
\* malformed input, missing columns (a schema column that no instance of
\* the batch carries); "" when all pass.
FirstFailure ==
  IF NotLoaded THEN "Model not loaded"
  ELSE IF Len(request) = 0 THEN "No instances provided"
  ELSE IF ~Tabular(request) THEN "Invalid input format"
  ELSE IF ~(Range(REQUIRED_COLUMNS) \subseteq KeysInAny(request))
       THEN "Missing required columns"
  ELSE ""

(* C8: a request rejected with 400 has made no call of the model, and the  *)
(* error returned is that of the first failing check in the order          *)
(* readiness, empty batch, malformed input, missing columns.                *)
C8_FailFast ==
  Answered =>
    /\ response.status = InvalidRequest => modelCalls = 0 /\ frame = NoFrame
    /\ FirstFailure # "" =>
         /\ response.detail = FirstFailure
         /\ response.status =
              IF FirstFailure = "Model not loaded" THEN ServiceUnavailable
              ELSE InvalidRequest
         /\ modelCalls = 0
    /\ FirstFailure = "" => modelCalls = 1

\* A batch that is both malformed and short of a column was rejected as
\* malformed.
C8_Witness ==
  /\ Answered /\ Ready
  /\ Len(REQUIRED_COLUMNS) = 2
  /\ Len(request) = 2
  /\ ~Tabular(request)
  /\ \A i \in 1..Len(request) : "b" \notin InstanceKeys(request[i])
  /\ response.detail = "Invalid input format"

(* C9: when the model raises on the frame, predict answers 500 with the    *)
(* failure detail and no predictions, and the model is invoked at most     *)
(* once per request.                                                        *)
C9_InferenceFailure ==
  /\ modelCalls <= 1
  /\ (Answered /\ modelCalls > 0 /\ ModelPredict(model, frame).raises) =>
       /\ response.status = PredictionFailed
       /\ response.detail = "Prediction failed"
       /\ response.predictions = <<>>
       /\ response.count = 0
  /\ (Answered /\ response.status = PredictionFailed) =>
       modelCalls = 1 /\ ModelPredict(model, frame).raises

\* The second row of a batch of two made the model raise.
C9_Witness ==
  /\ Answered /\ Ready
  /\ Len(request) = 2
  /\ response.status = PredictionFailed
  /\ \A j \in 1..Len(frame.columns) : frame.rows[1][j] # NaN
  /\ \E j \in 1..Len(frame.columns) : frame.rows[2][j] = NaN

(* C10: health answers 'healthy' with model_loaded true exactly when the   *)
(* service is Ready and 'not_ready' with model_loaded false exactly when   *)
(* it is NotLoaded, and predict answers 503 only while health reports      *)
(* not_ready.                                                               *)
C10_HealthReporting ==
  (pc = "serving" /\ healthReply # NoHealth) =>
    /\ healthReply \in { [status |-> "healthy", model_loaded |-> TRUE],
                         [status |-> "not_ready", model_loaded |-> FALSE] }
    /\ healthReply.model_loaded <=> Ready
    /\ healthReply.status = "healthy" <=> Ready
    /\ healthReply.status = "not_ready" <=> NotLoaded
    /\ response.status = ServiceUnavailable => healthReply.status = "not_ready"
    /\ (Answered /\ healthReply.status = "not_ready") =>
         response.status = ServiceUnavailable

\* Health said not_ready and predict said 503 for the same service.
C10_Witness ==
  /\ pc = "serving"
  /\ healthReply = [status |-> "not_ready", model_loaded |-> FALSE]
  /\ response.status = ServiceUnavailable
  /\ Len(request) > 0

=============================================================================
